---- MODULE Spec2Model ----
(***************************************************************************)
(* State-machine model of velodyne::VelodynePostNode                       *)
(* (src/src/velodyne_post/lib/VelodynePostNode.cpp).                       *)
(*                                                                         *)
(* The node subscribes to Velodyne packets (raw or snappy-compressed),     *)
(* accumulates _numDataPackets of them, converts the batch to a point      *)
(* cloud and publishes it while somebody listens.  A timer polls the       *)
(* number of listeners and establishes / shuts down the input subscription.*)
(*                                                                         *)
(* Callbacks are dispatched one at a time by ros::spin(), so every         *)
(* callback is one atomic action.  Variables whose name is a member of the *)
(* class model that member; `params', `numSubscribers' and `now' are the   *)
(* environment; `last', `delivered', `scriptPos', `lifecycle' and the n*   *)
(* counters are history variables that only record what the code did.      *)
(***************************************************************************)
EXTENDS Integers, Sequences, FiniteSets, TLC

VARIABLES
  params,               \* contents of the ROS parameter server (read-only)
  pc,                   \* "start" | "running" | "aborted" | "crashed"
  deviceName,           \* _deviceName
  calibFileName,        \* _calibFileName
  transportType,        \* _transportType
  transportHints,       \* _transportHints
  useBinarySnappy,      \* _useBinarySnappy
  numDataPackets,       \* _numDataPackets
  minDistance,          \* _minDistance
  maxDistance,          \* _maxDistance
  timerArmed,           \* _timer created
  subscriptionIsActive, \* _subscriptionIsActive
  binarySnappySubscriber, \* _velodyneBinarySnappySubscriber is established
  dataPacketSubscriber, \* _velodyneDataPacketSubscriber is established
  dataPackets,          \* _dataPackets
  frameId,              \* _frameId
  numSubscribers,       \* _pointCloudPublisher.getNumSubscribers()
  now,                  \* number of callbacks dispatched so far (the clock)
  last,                 \* what the last dispatched callback did
  delivered,            \* every packet pushed to _dataPackets, in order
  pathsUsed,            \* the callbacks that have pushed a packet
  nTicks,               \* number of timer ticks so far
  scriptPos,            \* nTicks while the ticks observed TickScript, else -1
  lifecycle,            \* the activations / deactivations, in order
  nPublishCalls,        \* number of calls of publish()
  nFullDemand,          \* number of full batches met with a count > 0
  nEmitted              \* number of outbound messages

vars == << params, pc, deviceName, calibFileName, transportType,
           transportHints, useBinarySnappy, numDataPackets, minDistance,
           maxDistance, timerArmed, subscriptionIsActive,
           binarySnappySubscriber, dataPacketSubscriber, dataPackets,
           frameId, numSubscribers, now, last, delivered, pathsUsed, nTicks,
           scriptPos, lifecycle, nPublishCalls, nFullDemand, nEmitted >>

(***************************************************************************)
(* Bounds of the model.                                                    *)
(***************************************************************************)
MaxEvents == 5        \* callbacks (packets and ticks) dispatched in a run
MaxSubscribers == 1   \* largest number of listeners of the output topic
MantissaBits == 3     \* significand of the scaled-down `double' (really 53)

\* ROS stamps are wall-clock nanoseconds (about 2^60), far beyond the 2^53 a
\* double holds exactly; the scaled clock starts beyond 2^MantissaBits alike.
Epoch == 2 ^ MantissaBits

(***************************************************************************)
(* Configuration: the parameters a launch file may set.  A parameter that  *)
(* is not in the record is absent from the parameter server, and           *)
(* NodeHandle::param then yields the default.  Distances are in tenths of  *)
(* a metre, so that 0.9 is 9 and 120.0 is 1200.                            *)
(***************************************************************************)
HDL64 == "Velodyne HDL-64E S2"
HDL32 == "Velodyne HDL-32E"
Devices == {HDL64, HDL32, "Velodyne VLP-16"}
Transports == {"udp", "tcp", "shm"}

DefaultMinDistance == 9
DefaultMaxDistance == 1200
DefaultNumDataPackets64 == 348
DefaultNumDataPackets32 == 174

ParamSpace ==
  {[device_name |-> d] : d \in Devices}
  \cup {[transport_type |-> t] : t \in Transports}
  \cup {[use_binary_snappy |-> b, num_data_packets |-> n] :
          b \in BOOLEAN, n \in {-1, 0, 1, 2, 3}}
  \cup {[use_binary_snappy |-> b, num_data_packets |-> 1,
         min_distance |-> 10, max_distance |-> 600] : b \in BOOLEAN}

\* NodeHandle::param(name, variable, default)
Param(p, name, default) == IF name \in DOMAIN p THEN p[name] ELSE default

\* What an int member that no constructor initialises may hold.
Indeterminate == {-1, 0, 2}

(***************************************************************************)
(* Packets.  A DataPacket holds DataChunkNbr chunks of LasersPerPacket     *)
(* laser returns.  Two packet bodies are enough to tell packets apart and  *)
(* to put returns below, on, between and above the distance thresholds.    *)
(***************************************************************************)
ChunksA ==
  << [headerInfo |-> 1, rotationalInfo |-> 0,
      laserData |-> << [distance |-> 5, intensity |-> 1],
                       [distance |-> 10, intensity |-> 2] >>],
     [headerInfo |-> 1, rotationalInfo |-> 1,
      laserData |-> << [distance |-> 600, intensity |-> 3],
                       [distance |-> 1500, intensity |-> 4] >>] >>

ChunksB ==
  << [headerInfo |-> 2, rotationalInfo |-> 2,
      laserData |-> << [distance |-> 9, intensity |-> 5],
                       [distance |-> 1200, intensity |-> 6] >>],
     [headerInfo |-> 2, rotationalInfo |-> 3,
      laserData |-> << [distance |-> 8, intensity |-> 7],
                       [distance |-> 1201, intensity |-> 8] >>] >>

DataChunkNbr == Len(ChunksA)
LasersPerPacket == Len(ChunksA[1].laserData)

\* The two sensors of the model: each has its frame and sends its packet body.
Sensors ==
  {[frame_id |-> "velodyne", dataChunks |-> ChunksA],
   [frame_id |-> "base_link", dataChunks |-> ChunksB]}

\* The structured message of the raw topic, captured at time t.
DataPacketMsgs(t) ==
  {[header |-> [frame_id |-> s.frame_id, stamp |-> t],
    dataChunks |-> s.dataChunks, spinCount |-> 7, reserved |-> 0] :
     s \in Sensors}

(***************************************************************************)
(* The binary form of a packet and the snappy frame around it.  A stream   *)
(* is a sequence of numbers: the timestamp, then per chunk its two header  *)
(* words and its returns, then spin count and reserved word.  A snappy     *)
(* frame is modelled as the uncompressed length followed by the literal.   *)
(***************************************************************************)
RECURSIVE WriteLasers(_)
WriteLasers(ls) ==
  IF ls = <<>> THEN <<>>
  ELSE <<Head(ls).distance, Head(ls).intensity>> \o WriteLasers(Tail(ls))

RECURSIVE WriteChunks(_)
WriteChunks(cs) ==
  IF cs = <<>> THEN <<>>
  ELSE <<Head(cs).headerInfo, Head(cs).rotationalInfo>>
       \o WriteLasers(Head(cs).laserData) \o WriteChunks(Tail(cs))

WriteBinary(p) ==
  <<p.timestamp>> \o WriteChunks(p.dataChunks) \o <<p.spinCount, p.reserved>>

ChunkSize == 2 + 2 * LasersPerPacket
BinarySize == 1 + DataChunkNbr * ChunkSize + 2

\* DataPacket::readBinary on a stream that holds a whole packet.
ReadBinary(s) ==
  [dataChunks |->
     [i \in 1..DataChunkNbr |->
        [headerInfo |-> s[1 + (i - 1) * ChunkSize + 1],
         rotationalInfo |-> s[1 + (i - 1) * ChunkSize + 2],
         laserData |->
           [j \in 1..LasersPerPacket |->
              [distance |-> s[1 + (i - 1) * ChunkSize + 2 * j + 1],
               intensity |-> s[1 + (i - 1) * ChunkSize + 2 * j + 2]]]]],
   timestamp |-> s[1],
   spinCount |-> s[BinarySize - 1],
   reserved |-> s[BinarySize]]

Compress(s) == <<Len(s)>> \o s

\* snappy::Uncompress: whether it succeeded, and the string it leaves.
Uncompress(d) ==
  IF d # <<>> /\ d[1] = Len(d) - 1
  THEN [ok |-> TRUE, out |-> Tail(d)]
  ELSE [ok |-> FALSE, out |-> <<>>]

\* The packet as the sensor driver serialised it: its own relative time 0.
SensorPacket(c) ==
  [dataChunks |-> c, timestamp |-> 0, spinCount |-> 7, reserved |-> 0]

GoodData(c) == Compress(WriteBinary(SensorPacket(c)))
\* A frame cut short in transit, and a well-formed frame of a short stream.
BadData(c) ==
  IF c = ChunksA THEN SubSeq(GoodData(c), 1, 4)
  ELSE Compress(SubSeq(WriteBinary(SensorPacket(c)), 1, 4))

\* The compressed messages captured at time t: each sensor's packet, intact
\* or damaged.
BinarySnappyMsgs(t) ==
  {[header |-> [frame_id |-> s.frame_id, stamp |-> t],
    data |-> IF good THEN GoodData(s.dataChunks) ELSE BadData(s.dataChunks)] :
     s \in Sensors, good \in BOOLEAN}

\* What readBinary may leave in the chunks of a packet it could not read.
Leftover == {ChunksB}

\* Whether the payload of a compressed message decodes to a whole packet.
Decodes(d) == Uncompress(d).ok /\ Len(Uncompress(d).out) >= BinarySize

(***************************************************************************)
(* Arithmetic in `double'.  A double holds MantissaBits significant bits;  *)
(* a larger integer is rounded to the nearest representable value, ties to *)
(* the even significand.  All values here are non-negative.                *)
(***************************************************************************)
RECURSIVE Ulp(_)
Ulp(n) == IF n < 2 ^ MantissaBits THEN 1 ELSE 2 * Ulp(n \div 2)

ToDouble(n) ==
  LET u == Ulp(n)
      q == n \div u
      r == n % u
  IN  IF 2 * r < u THEN q * u
      ELSE IF 2 * r > u THEN (q + 1) * u
      ELSE IF q % 2 = 0 THEN q * u ELSE (q + 1) * u

\* std::round(d * 0.5) for a double d >= 0: halves go away from zero.
RoundHalf(d) == (d + 1) \div 2

\* front + std::round((back - front) * 0.5): the difference of the two
\* int64 stamps is converted to double, halved and rounded; the int64 front
\* is converted to double for the addition, whose result is a double that
\* ros::Time::fromNSec takes as uint64.
MidStamp(front, back) ==
  ToDouble(ToDouble(front) + RoundHalf(ToDouble(back - front)))

(***************************************************************************)
(* Converter::toPointCloud (libvelodyne): every return of every chunk of   *)
(* the packet whose distance lies within [lo, hi] appends one point to the *)
(* cloud.  The calibrated geometry is opaque: a point keeps the angle, the *)
(* laser and the distance it was computed from.                            *)
(***************************************************************************)
RECURSIVE LaserPoints(_, _, _, _)
LaserPoints(chunk, j, lo, hi) ==
  IF j > Len(chunk.laserData) THEN <<>>
  ELSE LET l == chunk.laserData[j]
       IN  (IF lo <= l.distance /\ l.distance <= hi
            THEN << [mX |-> chunk.rotationalInfo, mY |-> j,
                     mZ |-> l.distance, mIntensity |-> l.intensity] >>
            ELSE <<>>)
           \o LaserPoints(chunk, j + 1, lo, hi)

RECURSIVE ChunkPoints(_, _, _, _)
ChunkPoints(packet, i, lo, hi) ==
  IF i > Len(packet.dataChunks) THEN <<>>
  ELSE LaserPoints(packet.dataChunks[i], 1, lo, hi)
       \o ChunkPoints(packet, i + 1, lo, hi)

toPointCloud(packet, pointCloud, lo, hi) ==
  pointCloud \o ChunkPoints(packet, 1, lo, hi)

\* sensor_msgs::convertPointCloudToPointCloud2: one row per point, holding
\* the coordinates followed by the value of every channel.
convertPointCloudToPointCloud2(cloud) ==
  [header |-> cloud.header,
   fields |-> <<"x", "y", "z">>
              \o [c \in 1..Len(cloud.channels) |-> cloud.channels[c].name],
   rows |-> [i \in 1..Len(cloud.points) |->
               <<cloud.points[i].x, cloud.points[i].y, cloud.points[i].z>>
               \o [c \in 1..Len(cloud.channels) |->
                     cloud.channels[c].values[i]]]]

(***************************************************************************)
(* VelodynePostNode::publish on the batch `batch' with _frameId = fid.     *)
(* The result holds the packets handed to the converter (conv) and the     *)
(* messages handed to the publisher (msgs).                                *)
(***************************************************************************)
\* A conversion loop that stops after the first packet.
ConvertFront(batch, pointCloud, lo, hi) ==
  IF batch = <<>> THEN pointCloud
  ELSE toPointCloud(Head(batch), pointCloud, lo, hi)

\* Lines 125-127: the loop over the packets of the batch.
RECURSIVE ConvertAll(_, _, _, _)
ConvertAll(batch, pointCloud, lo, hi) ==
  IF batch = <<>> THEN pointCloud
  ELSE ConvertAll(Tail(batch), toPointCloud(Head(batch), pointCloud, lo, hi),
                  lo, hi)

Nothing == [conv |-> <<>>, msgs |-> <<>>]

\* Lines 124-150: convert, assemble the message and publish it.  front() and
\* back() of an empty vector have no defined value: the stamp computed from
\* them is marked "undefined".
publishBatch(batch, fid) ==
    LET pointCloud == ConvertAll(batch, <<>>, minDistance, maxDistance)
        rosPointCloud ==
          [header |->
             [stamp |-> IF batch = <<>> THEN "undefined"
                        ELSE MidStamp(batch[1].timestamp,
                                      batch[Len(batch)].timestamp),
              frame_id |-> fid],
           points |-> [i \in 1..Len(pointCloud) |->
                         [x |-> pointCloud[i].mX, y |-> pointCloud[i].mY,
                          z |-> pointCloud[i].mZ]],
           channels |-> << [name |-> "intensity",
                            values |-> [i \in 1..Len(pointCloud) |->
                                          pointCloud[i].mIntensity]] >>]
    IN  [conv |-> batch,
         msgs |-> <<convertPointCloudToPointCloud2(rosPointCloud)>>]

\* A publish that trusts the cached subscription state instead of the count.
publishCached(batch, fid) ==
  IF ~subscriptionIsActive THEN Nothing ELSE publishBatch(batch, fid)

\* A publish without the demand check.
publishAlways(batch, fid) == publishBatch(batch, fid)

\* A publish that stamps the frame the previous callback left in _frameId.
publishStaleFrame(batch, fid) ==
  IF numSubscribers = 0 THEN Nothing ELSE publishBatch(batch, frameId)

publish(batch, fid) ==
  IF numSubscribers = 0 THEN Nothing ELSE publishBatch(batch, fid)

(***************************************************************************)
(* The record of one dispatched callback.                                  *)
(***************************************************************************)
NoCallback ==
  [op |-> "none", subs |-> 0, decoded |-> FALSE, appended |-> FALSE,
   full |-> FALSE, before |-> <<>>, batch |-> <<>>, conv |-> <<>>,
   msgs |-> <<>>, wasActive |-> FALSE, event |-> "none"]

configVars == << params, deviceName, calibFileName, transportType,
                 transportHints, useBinarySnappy, numDataPackets,
                 minDistance, maxDistance, timerArmed >>
subscriptionVars == << subscriptionIsActive, binarySnappySubscriber,
                       dataPacketSubscriber, nTicks, scriptPos,
                       lifecycle >>
batchVars == << dataPackets, frameId, delivered, pathsUsed, nPublishCalls,
                nFullDemand, nEmitted >>

(***************************************************************************)
(* The state when the constructor body is entered: the member initialisers *)
(* have run (_subscriptionIsActive(false)), strings and the vector are     *)
(* empty, and the int _numDataPackets holds whatever the memory held.      *)
(***************************************************************************)
Init ==
  /\ params \in ParamSpace
  /\ pc = "start"
  /\ deviceName = ""
  /\ calibFileName = ""
  /\ transportType = ""
  /\ transportHints = <<>>
  /\ useBinarySnappy = FALSE
  /\ numDataPackets \in Indeterminate
  /\ minDistance = 0
  /\ maxDistance = 0
  /\ timerArmed = FALSE
  /\ subscriptionIsActive = FALSE
  /\ binarySnappySubscriber = FALSE
  /\ dataPacketSubscriber = FALSE
  /\ dataPackets = <<>>
  /\ frameId = ""
  /\ numSubscribers = 0
  /\ now = 0
  /\ last = NoCallback
  /\ delivered = <<>>
  /\ pathsUsed = {}
  /\ nTicks = 0
  /\ scriptPos = 0
  /\ lifecycle = <<>>
  /\ nPublishCalls = 0
  /\ nFullDemand = 0
  /\ nEmitted = 0

(***************************************************************************)
(* VelodynePostNode::getParameters, as the values it leaves in the members.*)
(***************************************************************************)
getDeviceName == Param(params, "device_name", HDL32)

getCalibFileName ==
  IF getDeviceName = HDL64
  THEN Param(params, "calibration_file", "conf/calib-HDL-64E.dat")
  ELSE IF getDeviceName = HDL32
  THEN Param(params, "calibration_file", "conf/calib-HDL-32E.dat")
  ELSE calibFileName

getNumDataPackets ==
  IF getDeviceName = HDL64
  THEN Param(params, "num_data_packets", DefaultNumDataPackets64)
  ELSE IF getDeviceName = HDL32
  THEN Param(params, "num_data_packets", DefaultNumDataPackets32)
  ELSE numDataPackets

getTransportHints(type) ==
  IF type = "udp" THEN <<"unreliable", "reliable">>
  ELSE IF type = "tcp" THEN <<"reliable", "unreliable">>
  ELSE transportHints

\* _dataPackets.reserve(n) converts the int to size_t: a negative n becomes a
\* size beyond max_size() and reserve throws std::length_error.
ReserveThrows(n) == n < 0

(***************************************************************************)
(* The constructor body: getParameters, the transport hints, advertise,    *)
(* reserve.  An exception of reserve leaves the constructor: no node.      *)
(***************************************************************************)
Construct ==
  /\ pc = "start"
  /\ minDistance' = Param(params, "min_distance", DefaultMinDistance)
  /\ maxDistance' = Param(params, "max_distance", DefaultMaxDistance)
  /\ deviceName' = getDeviceName
  /\ calibFileName' = getCalibFileName
  /\ useBinarySnappy' = Param(params, "use_binary_snappy", TRUE)
  /\ transportType' = Param(params, "transport_type", "udp")
  /\ numDataPackets' = getNumDataPackets
  /\ transportHints' = getTransportHints(transportType')
  /\ IF ReserveThrows(numDataPackets')
     THEN pc' = "aborted" /\ timerArmed' = FALSE
     ELSE pc' = "running" /\ timerArmed' = TRUE
  /\ last' = [NoCallback EXCEPT !.op = "construct"]
  /\ UNCHANGED << params, numSubscribers, now >>
  /\ UNCHANGED subscriptionVars
  /\ UNCHANGED batchVars

(***************************************************************************)
(* Lines 96-100 and 114-118: push the packet, and when the batch has       *)
(* _numDataPackets packets publish it and clear it.                        *)
(***************************************************************************)
\* A size check that is off by one.
BatchIsFullLate(batch) == Len(batch) = numDataPackets + 1

\* A size check that fires on any batch at or over the count.
BatchIsFullAtLeast(batch) == Len(batch) >= numDataPackets

BatchIsFull(batch) == Len(batch) = numDataPackets

\* A flush that clears the batch before it publishes.
ClearThenPublish(batch, fid) ==
  [seen |-> <<>>, out |-> publish(<<>>, fid), left |-> <<>>]

\* Lines 98-99 and 116-117: publish(), then clear().  `seen' is the batch
\* publish() finds in _dataPackets, `left' the batch after the two calls.
PublishThenClear(batch, fid) ==
  [seen |-> batch, out |-> publish(batch, fid), left |-> <<>>]

PushBack(op, dataPacket, fid, decoded) ==
  LET batch == Append(dataPackets, dataPacket)
      full == BatchIsFull(batch)
      flush == IF full THEN PublishThenClear(batch, fid)
               ELSE [seen |-> <<>>, out |-> Nothing, left |-> batch]
      out == flush.out
  IN  /\ dataPackets' = flush.left
      /\ delivered' = Append(delivered, dataPacket)
      /\ pathsUsed' = pathsUsed \cup {op}
      /\ nPublishCalls' = nPublishCalls + (IF full THEN 1 ELSE 0)
      /\ nFullDemand' =
           nFullDemand + (IF full /\ numSubscribers > 0 THEN 1 ELSE 0)
      /\ nEmitted' = nEmitted + Len(out.msgs)
      /\ last' = [NoCallback EXCEPT
                    !.op = op, !.subs = numSubscribers,
                    !.decoded = decoded, !.appended = TRUE, !.full = full,
                    !.before = dataPackets,
                    !.batch = flush.seen,
                    !.conv = out.conv, !.msgs = out.msgs,
                    !.wasActive = subscriptionIsActive]

\* Lines 80-95: the field-by-field copy of the message into a DataPacket.
FromMsg(msg) ==
  [dataChunks |->
     [i \in 1..DataChunkNbr |->
        [headerInfo |-> msg.dataChunks[i].headerInfo,
         rotationalInfo |-> msg.dataChunks[i].rotationalInfo,
         laserData |->
           [j \in 1..LasersPerPacket |->
              [distance |-> msg.dataChunks[i].laserData[j].distance,
               intensity |-> msg.dataChunks[i].laserData[j].intensity]]]],
   timestamp |-> msg.header.stamp,
   spinCount |-> msg.spinCount,
   reserved |-> msg.reserved]

\* A decode that keeps the time the sensor driver wrote into the payload.
FromSnappyKeepTime(msg) == ReadBinary(Uncompress(msg.data).out)

\* Lines 105-113: uncompress the payload, read the packet from it and stamp
\* the packet with the capture time of the message.
FromSnappy(msg) ==
  [ReadBinary(Uncompress(msg.data).out) EXCEPT
     !.timestamp = msg.header.stamp]

\* A raw callback that marks the subscription inactive when it runs without
\* a listener.
velodyneDataPacketCallbackMarking ==
  /\ pc = "running"
  /\ dataPacketSubscriber
  /\ now < MaxEvents
  /\ now' = now + 1
  /\ \E msg \in DataPacketMsgs(Epoch + now') :
       /\ frameId' = msg.header.frame_id
       /\ PushBack("dataPacket", FromMsg(msg), frameId', TRUE)
  /\ subscriptionIsActive' = (subscriptionIsActive /\ numSubscribers > 0)
  /\ UNCHANGED << pc, numSubscribers >>
  /\ UNCHANGED configVars
  /\ UNCHANGED << binarySnappySubscriber, dataPacketSubscriber, nTicks,
                  scriptPos, lifecycle >>

velodyneDataPacketCallback ==
  /\ pc = "running"
  /\ dataPacketSubscriber
  /\ now < MaxEvents
  /\ now' = now + 1
  /\ \E msg \in DataPacketMsgs(Epoch + now') :
       /\ frameId' = msg.header.frame_id
       /\ PushBack("dataPacket", FromMsg(msg), frameId', TRUE)
  /\ UNCHANGED << pc, numSubscribers >>
  /\ UNCHANGED configVars
  /\ UNCHANGED subscriptionVars

(***************************************************************************)
(* velodyneBinarySnappyCallback.  The result of snappy::Uncompress is not  *)
(* looked at.  When the payload does not decode, DataPacket::readBinary    *)
(* works on a stream that ends early: it either throws, and the exception  *)
(* leaves the callback and ros::spin(), or it returns and leaves in the    *)
(* packet whatever it read; the packet is then stamped and pushed.         *)
(***************************************************************************)
velodyneBinarySnappyCallback ==
  /\ pc = "running"
  /\ binarySnappySubscriber
  /\ now < MaxEvents
  /\ now' = now + 1
  /\ \E msg \in BinarySnappyMsgs(Epoch + now') :
       /\ frameId' = msg.header.frame_id
       /\ IF Decodes(msg.data)
          THEN /\ PushBack("binarySnappy", FromSnappy(msg),
                           frameId', TRUE)
               /\ pc' = pc
          ELSE \/ /\ pc' = "crashed"
                  /\ last' = [NoCallback EXCEPT
                                !.op = "binarySnappy",
                                !.subs = numSubscribers,
                                !.before = dataPackets,
                                !.wasActive = subscriptionIsActive]
                  /\ UNCHANGED << dataPackets, delivered, pathsUsed,
                                  nPublishCalls, nFullDemand,
                                  nEmitted >>
               \/ /\ pc' = pc
                  /\ \E c \in Leftover :
                       PushBack("binarySnappy",
                                [dataChunks |-> c,
                                 timestamp |-> msg.header.stamp,
                                 spinCount |-> 0, reserved |-> 0],
                                frameId', FALSE)
  /\ UNCHANGED numSubscribers
  /\ UNCHANGED configVars
  /\ UNCHANGED subscriptionVars

(***************************************************************************)
(* The subscription lifecycle: updateSubscription is the timer callback.   *)
(***************************************************************************)
\* The counts of the lifecycle scenario of the specification, tick by tick.
TickScript == <<0, 0, 1, 1, 0>>

\* A tick that looks at the count alone.
TransitionEager(active, count) ==
  IF count = 0 THEN "deactivate" ELSE "activate"

\* A tick that activates and never deactivates.
TransitionLatch(active, count) ==
  IF ~active /\ count > 0 THEN "activate" ELSE "none"

\* Lines 190-195: what a tick does in state `active' on observing `count'.
Transition(active, count) ==
  IF active /\ count = 0 THEN "deactivate"
  ELSE IF ~active /\ count > 0 THEN "activate"
  ELSE "none"

\* An activation that establishes both subscriptions.
initSubscribersBoth ==
  /\ binarySnappySubscriber' = TRUE
  /\ dataPacketSubscriber' = TRUE
  /\ subscriptionIsActive' = TRUE
  /\ UNCHANGED batchVars

initSubscribers ==
  /\ IF useBinarySnappy
     THEN binarySnappySubscriber' = TRUE /\ UNCHANGED dataPacketSubscriber
     ELSE dataPacketSubscriber' = TRUE /\ UNCHANGED binarySnappySubscriber
  /\ subscriptionIsActive' = TRUE
  /\ UNCHANGED batchVars

\* A deactivation that leaves the subscription established.
shutdownSubscribersKeep ==
  /\ UNCHANGED << binarySnappySubscriber, dataPacketSubscriber >>
  /\ subscriptionIsActive' = FALSE
  /\ UNCHANGED batchVars

\* A deactivation that also drops the packets collected so far.
shutdownSubscribersClear ==
  /\ IF useBinarySnappy
     THEN binarySnappySubscriber' = FALSE /\ UNCHANGED dataPacketSubscriber
     ELSE dataPacketSubscriber' = FALSE /\ UNCHANGED binarySnappySubscriber
  /\ subscriptionIsActive' = FALSE
  /\ dataPackets' = <<>>
  /\ UNCHANGED << frameId, delivered, pathsUsed, nPublishCalls,
                  nFullDemand, nEmitted >>

shutdownSubscribers ==
  /\ IF useBinarySnappy
     THEN binarySnappySubscriber' = FALSE /\ UNCHANGED dataPacketSubscriber
     ELSE dataPacketSubscriber' = FALSE /\ UNCHANGED binarySnappySubscriber
  /\ subscriptionIsActive' = FALSE
  /\ UNCHANGED batchVars

\* Lines 190-195: the body of updateSubscription.
checkSubscribers ==
  IF Transition(subscriptionIsActive, numSubscribers) = "deactivate"
  THEN shutdownSubscribers
  ELSE IF Transition(subscriptionIsActive, numSubscribers) = "activate"
  THEN initSubscribers
  ELSE /\ UNCHANGED << subscriptionIsActive, binarySnappySubscriber,
                       dataPacketSubscriber >>
       /\ UNCHANGED batchVars

\* The timer callback, with the record of the tick.
updateSubscription ==
  /\ pc = "running"
  /\ timerArmed
  /\ now < MaxEvents
  /\ now' = now + 1
  /\ nTicks' = nTicks + 1
  /\ scriptPos' = IF /\ scriptPos = nTicks
                     /\ nTicks < Len(TickScript)
                     /\ TickScript[nTicks + 1] = numSubscribers
                  THEN nTicks + 1 ELSE -1
  /\ checkSubscribers
  /\ lifecycle' =
       IF Transition(subscriptionIsActive, numSubscribers) = "none"
       THEN lifecycle
       ELSE Append(lifecycle,
                   [tick |-> nTicks + 1,
                    event |-> Transition(subscriptionIsActive,
                                         numSubscribers)])
  /\ last' = [NoCallback EXCEPT
                !.op = "tick", !.subs = numSubscribers,
                !.wasActive = subscriptionIsActive,
                !.before = dataPackets,
                !.event = IF Len(lifecycle') > Len(lifecycle)
                          THEN lifecycle'[Len(lifecycle')].event
                          ELSE "none"]
  /\ UNCHANGED << pc, numSubscribers >>
  /\ UNCHANGED configVars

\* A listener of the point cloud topic connects or disconnects.
SubscribersChange ==
  /\ pc = "running"
  /\ \E n \in 0..MaxSubscribers :
       /\ n # numSubscribers
       /\ numSubscribers' = n
  /\ UNCHANGED << pc, now, last >>
  /\ UNCHANGED configVars
  /\ UNCHANGED subscriptionVars
  /\ UNCHANGED batchVars

Next ==
  \/ Construct
  \/ velodyneDataPacketCallback
  \/ velodyneBinarySnappyCallback
  \/ updateSubscription
  \/ SubscribersChange

Spec == Init /\ [][Next]_vars

(***************************************************************************)
(* The node running on: the timer of getParameters (lines 183-186) keeps   *)
(* firing for as long as ros::spin() runs, beyond the MaxEvents callbacks  *)
(* whose record is kept.  A tick past that point does what every tick does *)
(* and is not recorded.                                                    *)
(***************************************************************************)
updateSubscriptionUnrecorded ==
  /\ pc = "running"
  /\ timerArmed
  /\ now >= MaxEvents
  /\ checkSubscribers
  /\ UNCHANGED << pc, numSubscribers, now, last, nTicks, scriptPos,
                  lifecycle >>
  /\ UNCHANGED configVars

Tick == updateSubscription \/ updateSubscriptionUnrecorded

LiveNext ==
  \/ Construct
  \/ velodyneDataPacketCallback
  \/ velodyneBinarySnappyCallback
  \/ updateSubscription
  \/ updateSubscriptionUnrecorded
  \/ SubscribersChange

\* The lifecycle does not read the device, the distances or the count of
\* packets per revolution: the long runs take one count and both inputs.
LiveInit ==
  /\ Init
  /\ params \in {[use_binary_snappy |-> b, num_data_packets |-> 2] :
                   b \in BOOLEAN}

LiveSpec == LiveInit /\ [][LiveNext]_vars /\ WF_vars(Tick)

(***************************************************************************)
(* Properties.                                                             *)
(***************************************************************************)
DecodeOps == {"dataPacket", "binarySnappy"}
Started == pc \in {"running", "crashed"}

\* C1 - Batch sizing.  With k = _numDataPackets >= 1 and N packets handed to
\* the accumulator so far, publish() has been called exactly N div k times,
\* the batch of the i-th call is packets (i-1)*k+1 .. i*k in arrival order
\* (so it has k packets and batches do not overlap), and the packets not yet
\* in a batch are exactly the N mod k newest, waiting in _dataPackets.
C1_BatchSizing ==
  (Started /\ numDataPackets >= 1) =>
    LET k == numDataPackets
        N == Len(delivered)
    IN  /\ nPublishCalls = N \div k
        /\ dataPackets = SubSeq(delivered, (N \div k) * k + 1, N)
        /\ last.full =>
             /\ N % k = 0
             /\ Len(last.batch) = k
             /\ last.batch = SubSeq(delivered, N - k + 1, N)
        /\ \A i \in 1..N : delivered[i].timestamp > Epoch
        /\ \A i \in 1..(N - 1) :
             delivered[i].timestamp < delivered[i + 1].timestamp

C1_Witness ==
  /\ numDataPackets = 2
  /\ Len(delivered) = 4
  /\ nPublishCalls = 2
  /\ last.full

\* C2 - Publish count.  The number of outbound messages equals the number of
\* batches that became full while getNumSubscribers() was nonzero at that
\* moment; a batch that becomes full at count zero emits nothing, a batch
\* that becomes full at a nonzero count emits exactly one message, and a
\* callback that does not fill the batch emits nothing.
C2_PublishCount ==
  /\ nEmitted = nFullDemand
  /\ nEmitted <= nPublishCalls
  /\ Len(last.msgs) <= 1
  /\ (last.full /\ last.subs = 0) => last.msgs = <<>>
  /\ (last.full /\ last.subs > 0) => Len(last.msgs) = 1
  /\ ~last.full => last.msgs = <<>>

C2_Witness ==
  /\ nPublishCalls = 2
  /\ nEmitted = 1
  /\ last.full
  /\ last.subs = 0
  /\ subscriptionIsActive

\* C3 - Demand gating without residue.  A batch that becomes full at count
\* zero emits no message, converts nothing and still leaves _dataPackets
\* empty; a batch that becomes full at a nonzero count emits one message made
\* from exactly its own k packets, the k newest, whatever happened to the
\* batch before it.
C3_DemandGating ==
  /\ (last.full /\ last.subs = 0) =>
       /\ last.msgs = <<>>
       /\ last.conv = <<>>
       /\ dataPackets = <<>>
  /\ (last.full /\ last.subs > 0) =>
       /\ Len(last.msgs) = 1
       /\ last.conv = last.batch
       /\ Len(last.batch) = numDataPackets
       /\ last.batch =
            SubSeq(delivered, Len(delivered) - numDataPackets + 1,
                   Len(delivered))
       /\ last.before = SubSeq(last.batch, 1, numDataPackets - 1)
       /\ dataPackets = <<>>

C3_Witness ==
  /\ numDataPackets = 2
  /\ nPublishCalls = 2
  /\ nEmitted = 1
  /\ last.full
  /\ last.subs > 0

\* C4 - Lifecycle transitions.  A tick activates iff the state was Inactive
\* and the count it observed was > 0, deactivates iff the state was Active
\* and the count was 0, and does nothing otherwise; activations and
\* deactivations alternate, starting with an activation, at increasing ticks;
\* and ticks that observe 0,0,1,1,0 give one activation at the third tick
\* and one deactivation at the fifth.
C4_LifecycleTransitions ==
  /\ last.op = "tick" =>
       /\ last.event = "activate" <=> (~last.wasActive /\ last.subs > 0)
       /\ last.event = "deactivate" <=> (last.wasActive /\ last.subs = 0)
       /\ last.event \in {"activate", "deactivate", "none"}
  /\ \A i \in 1..Len(lifecycle) :
       /\ lifecycle[i].event =
            (IF i % 2 = 1 THEN "activate" ELSE "deactivate")
       /\ lifecycle[i].tick \in 1..nTicks
       /\ i > 1 => lifecycle[i - 1].tick < lifecycle[i].tick
  /\ subscriptionIsActive <=> (Len(lifecycle) % 2 = 1)
  /\ scriptPos \in {0, 1, 2} => lifecycle = <<>>
  /\ scriptPos \in {3, 4} =>
       lifecycle = << [tick |-> 3, event |-> "activate"] >>
  /\ scriptPos = 5 =>
       lifecycle = << [tick |-> 3, event |-> "activate"],
                      [tick |-> 5, event |-> "deactivate"] >>

C4_Witness ==
  /\ scriptPos = 5
  /\ last.op = "tick"
  /\ last.event = "deactivate"

\* C5 - Decode resilience.  A compressed message whose payload does not
\* decode is not appended: the batch is what it was before the message, no
\* publish is triggered, and the node goes on to take the next message.
C5_DecodeResilience ==
  (last.op = "binarySnappy" /\ ~last.decoded) =>
    /\ ~last.appended
    /\ dataPackets = last.before
    /\ ~last.full
    /\ last.msgs = <<>>
    /\ pc = "running"

\* C6 - Timestamp midpoint.  The stamp of every outbound message is
\* first + round((last - first) * 0.5) in integer nanoseconds, halves rounded
\* away from zero, for the first and last packet of the published batch; a
\* batch of one packet gives that packet's own timestamp.  Stated for the
\* batches of a supported device on the raw-packet path, whose packets are
\* all copies of the messages received.
C6_TimestampMidpoint ==
  ( /\ last.msgs # <<>>
    /\ deviceName \in {HDL64, HDL32}
    /\ pathsUsed = {"dataPacket"} ) =>
    LET first == last.batch[1].timestamp
        final == last.batch[Len(last.batch)].timestamp
    IN  /\ first <= final
        /\ last.msgs[1].header.stamp = first + (final - first + 1) \div 2
        /\ Len(last.batch) = 1 => last.msgs[1].header.stamp = first

\* C7 - No work without demand, as stated: no decode callback runs while the
\* count is zero.
C7_NoWorkWithoutDemand ==
  ~(last.op \in DecodeOps /\ last.subs = 0)

\* C7, amended - While the count is zero no conversion runs and no message is
\* emitted.  Packets are decoded and appended only while the subscription is
\* Active, and an Inactive node has no upstream subscription; between the
\* count dropping to zero and the next tick the callbacks still run.
C7_NoConversionWithoutDemand ==
  /\ last.op \in DecodeOps =>
       /\ last.wasActive
       /\ last.subs = 0 => (last.conv = <<>> /\ last.msgs = <<>>)
  /\ ~subscriptionIsActive =>
       (~binarySnappySubscriber /\ ~dataPacketSubscriber)

C7_Witness ==
  /\ last.op \in DecodeOps
  /\ last.subs = 0
  /\ last.appended
  /\ last.full
  /\ last.conv = <<>>

\* C8 - Decoder input exclusivity.  At most one of the two upstream
\* subscriptions is established; an Active node has exactly the one that
\* use_binary_snappy selects and an Inactive node has neither, so every
\* packet of every batch came through the one configured callback.
C8_InputExclusivity ==
  /\ ~(binarySnappySubscriber /\ dataPacketSubscriber)
  /\ subscriptionIsActive =>
       /\ binarySnappySubscriber <=> useBinarySnappy
       /\ dataPacketSubscriber <=> ~useBinarySnappy
  /\ ~subscriptionIsActive =>
       (~binarySnappySubscriber /\ ~dataPacketSubscriber)
  /\ pathsUsed \subseteq
       {IF useBinarySnappy THEN "binarySnappy" ELSE "dataPacket"}

C8_Witness ==
  /\ subscriptionIsActive
  /\ dataPacketSubscriber
  /\ ~useBinarySnappy
  /\ Len(lifecycle) = 3
  /\ Len(dataPackets) = 2

\* C9 - Distance filter.  The cloud of a published batch holds one point for
\* every return whose distance d satisfies min_distance <= d <= max_distance
\* (both inclusive, the configured values) and no other point; every packet
\* of the batch is converted; points are in packet, chunk, laser order.  The
\* returns at 0.5, 1.0, 60.0 and 150.0 with 0.9 and 120.0 give the points of
\* 1.0 and 60.0.
ReturnsPerPacket == DataChunkNbr * LasersPerPacket

AllReturns(batch) ==
  [n \in 1..(Len(batch) * ReturnsPerPacket) |->
     LET p == (n - 1) \div ReturnsPerPacket + 1
         i == ((n - 1) % ReturnsPerPacket) \div LasersPerPacket + 1
         j == ((n - 1) % LasersPerPacket) + 1
         chunk == batch[p].dataChunks[i]
     IN  << chunk.rotationalInfo, j, chunk.laserData[j].distance,
            chunk.laserData[j].intensity >>]

Configured(r) ==
  /\ Param(params, "min_distance", DefaultMinDistance) <= r[3]
  /\ r[3] <= Param(params, "max_distance", DefaultMaxDistance)

C9_DistanceFilter ==
  last.msgs # <<>> =>
    LET rows == last.msgs[1].rows
    IN  /\ last.conv = last.batch
        /\ rows = SelectSeq(AllReturns(last.batch), Configured)
        /\ last.msgs[1].fields = <<"x", "y", "z", "intensity">>
        /\ ( /\ Len(last.batch) = 1
             /\ last.batch[1].dataChunks = ChunksA
             /\ minDistance = 9
             /\ maxDistance = 1200 )
           => [n \in 1..Len(rows) |-> rows[n][3]] = <<10, 600>>

C9_Witness ==
  /\ last.msgs # <<>>
  /\ Len(last.batch) = 2
  /\ last.batch[1].dataChunks # last.batch[2].dataChunks
  /\ Len(last.msgs[1].rows) = 4

\* C10 - Configuration errors are non-fatal.  With a device name or a
\* transport type that is not supported, the constructor still completes:
\* the node runs, Inactive, with an empty batch and the timer armed, the
\* calibration path respectively the transport hints left unset.
C10_ConfigErrorsNonFatal ==
  ( /\ last.op = "construct"
    /\ \/ deviceName \notin {HDL64, HDL32}
       \/ transportType \notin {"udp", "tcp"} )
  => /\ pc = "running"
     /\ timerArmed
     /\ ~subscriptionIsActive
     /\ dataPackets = <<>>
     /\ deviceName \notin {HDL64, HDL32} => calibFileName = ""
     /\ transportType \notin {"udp", "tcp"} => transportHints = <<>>

\* C11 - Bounded batch, run to completion.  With k = _numDataPackets >= 1,
\* between callbacks the batch holds fewer than k packets; it reaches k
\* packets only inside a decode callback, which publishes and clears it
\* before it returns; and a callback either leaves the batch alone, appends
\* one packet to it (n to n + 1) or empties a batch of k (k to 0).
C11_BoundedBatch ==
  (Started /\ numDataPackets >= 1) =>
    LET k == numDataPackets
        N == Len(delivered)
    IN  /\ Len(dataPackets) < k
        /\ last.full =>
             /\ last.op \in DecodeOps
             /\ last.appended
             /\ Len(last.before) = k - 1
             /\ Len(last.batch) = k
             /\ dataPackets = <<>>
        /\ (last.appended /\ ~last.full) =>
             /\ Len(last.before) < k - 1
             /\ dataPackets = Append(last.before, delivered[N])
        /\ ~last.appended =>
             /\ ~last.full
             /\ last.op # "none" => dataPackets = last.before

C11_Witness ==
  /\ numDataPackets = 3
  /\ nPublishCalls = 1
  /\ Len(dataPackets) = 1
  /\ last.appended
  /\ Len(last.before) = 0

\* The ticks are the callbacks that delivered no packet: while the node runs,
\* the times of the ticks are the times up to `now' that stamp no packet.
TickTimes ==
  (1..now) \ {delivered[i].timestamp - Epoch : i \in 1..Len(delivered)}
TickTime(j) ==
  CHOOSE t \in TickTimes : Cardinality({u \in TickTimes : u <= t}) = j

\* C12 - A lifecycle tick leaves the accumulator untouched.  Every tick, one
\* that activates or deactivates the subscription included, leaves
\* _dataPackets and _frameId as they were; so the packets waiting in the
\* batch are always the newest N mod k delivered ones, whatever ticks came
\* between them, and the batch a callback completes is the batch it found
\* followed by its own packet.
C12_TickKeepsBatch ==
  /\ [][nTicks' # nTicks =>
          (dataPackets' = dataPackets /\ frameId' = frameId)]_vars
  /\ []((Started /\ numDataPackets >= 1) =>
          LET k == numDataPackets
              N == Len(delivered)
          IN  /\ dataPackets = SubSeq(delivered, N - (N % k) + 1, N)
              /\ last.op = "tick" => last.before = dataPackets
              /\ last.full =>
                   last.batch = Append(last.before, delivered[N]))

\* A batch of two completes with one packet from before a deactivation and
\* one from after the reactivation that followed it.
C12_Witness ==
  /\ pc = "running"
  /\ numDataPackets = 2
  /\ last.full
  /\ \E d \in 1..(Len(lifecycle) - 1) :
       /\ lifecycle[d].event = "deactivate"
       /\ lifecycle[d + 1].event = "activate"
       /\ last.batch[1].timestamp < Epoch + TickTime(lifecycle[d].tick)
       /\ last.batch[2].timestamp > Epoch + TickTime(lifecycle[d + 1].tick)

\* C13 - Published frame identity.  The frame_id of an outbound message is
\* the frame_id of the header of the inbound message handled by the callback
\* that published it, the message whose packet is the last one of the
\* published batch, whatever the frames of the earlier packets of the batch.
C13_PublishedFrame ==
  last.msgs # <<>> =>
    /\ last.op \in DecodeOps
    /\ last.msgs[1].header.frame_id = frameId
    /\ last.decoded =>
         \E s \in Sensors :
           /\ s.dataChunks = last.batch[Len(last.batch)].dataChunks
           /\ s.frame_id = last.msgs[1].header.frame_id

C13_Witness ==
  /\ last.msgs # <<>>
  /\ last.decoded
  /\ Len(last.batch) = 2
  /\ last.batch[1].dataChunks # last.batch[2].dataChunks

\* C14 - Unreachable batch count.  When _numDataPackets is zero or negative
\* the size of the batch after an append never equals it: publish() is never
\* called, no message is emitted, the batch is never cleared and holds every
\* packet delivered so far, growing by one packet per decode callback.
C14_UnreachableCount ==
  (pc # "start" /\ numDataPackets <= 0) =>
    /\ nPublishCalls = 0
    /\ nEmitted = 0
    /\ ~last.full
    /\ last.msgs = <<>>
    /\ dataPackets = delivered
    /\ last.appended =>
         /\ dataPackets = Append(last.before, delivered[Len(delivered)])
         /\ Len(dataPackets) = Len(last.before) + 1

C14_Witness ==
  /\ numDataPackets = 0
  /\ pc = "running"
  /\ last.appended
  /\ Len(dataPackets) = 4

C16_SingleWriter ==
  /\ last.op \in {"none", "construct"} => ~subscriptionIsActive
  /\ last.op \in DecodeOps => subscriptionIsActive = last.wasActive
  /\ last.op = "tick" =>
       /\ last.event = "none" => subscriptionIsActive = last.wasActive
       /\ last.event = "activate" => subscriptionIsActive /\ ~last.wasActive
       /\ last.event = "deactivate" => ~subscriptionIsActive /\ last.wasActive

\* A batch completed and was published while a listener was present, in a
\* callback that found the subscription active and left it active.
C16_Witness ==
  /\ last.op \in DecodeOps
  /\ last.full
  /\ last.msgs # <<>>
  /\ last.wasActive
  /\ subscriptionIsActive
  /\ numSubscribers = 0

\* C17 - Lifecycle convergence.  With the timer firing fairly while the node
\* runs: if from some point on the node runs with a nonzero listener count,
\* _subscriptionIsActive eventually becomes true and stays true; if from some
\* point on it runs with a zero count, the flag eventually becomes false and
\* stays false; and right after every tick the flag is true iff the count
\* that tick observed was nonzero.
C17_LifecycleConvergence ==
  /\ <>[](pc = "running" /\ numSubscribers > 0) => <>[]subscriptionIsActive
  /\ <>[](pc = "running" /\ numSubscribers = 0) => <>[]~subscriptionIsActive
  /\ [][Tick => (subscriptionIsActive' <=> numSubscribers > 0)]_vars

\* The flag has followed the count up and down again.
C17_Witness ==
  /\ Len(lifecycle) = 2
  /\ lifecycle[1].event = "activate"
  /\ lifecycle[2].event = "deactivate"
  /\ last.op = "tick"
  /\ last.subs = 0
  /\ numSubscribers = 0
  /\ ~subscriptionIsActive

\* C18 - publish() never sees an empty batch.  For every value of
\* _numDataPackets, publish() runs only inside a decode callback, right
\* after that callback's push_back and before the clear: the batch whose
\* front() and back() it reads is the batch the callback found followed by
\* the packet just pushed, so it is not empty.
C18_PublishSeesPackets ==
  /\ nPublishCalls <= Len(delivered)
  /\ last.full =>
       /\ last.op \in DecodeOps
       /\ last.appended
       /\ last.batch # <<>>
       /\ last.batch = Append(last.before, delivered[Len(delivered)])
  /\ last.msgs # <<>> =>
       /\ last.full
       /\ last.conv = last.batch

\* The smallest batch: one packet, pushed onto an empty batch and published.
C18_Witness ==
  /\ numDataPackets = 1
  /\ last.full
  /\ last.before = <<>>
  /\ Len(last.msgs) = 1

====
